---------------------------- MODULE Spec2Model ----------------------------
(***************************************************************************)
(* Model of the in-memory todo store of src/main.py (TodoStore and Task).  *)
(*                                                                         *)
(* Strings are run-length encoded: a string is a sequence of runs          *)
(* <<c, n>> (the character c repeated n >= 1 times, adjacent runs having   *)
(* different characters), so "  aaa " is << <<" ",2>>, <<"a",3>>,          *)
(* <<" ",1>> >> and "" is << >>.  len and strip are computed on the runs   *)
(* exactly as Python computes them on the characters.                      *)
(* An optional string argument (str = None) is a record                    *)
(* [none |-> BOOLEAN, str |-> string].                                     *)
(* The dict self.tasks is a sequence of entries [key, task] in insertion   *)
(* order, as a Python dict keeps it.                                       *)
(***************************************************************************)
EXTENDS Integers, Sequences, FiniteSets

\* tasks, next_id: the fields of the TodoStore; now: the last reading of the
\* clock; adds: the number of successful adds so far; deleted: the ids
\* successfully deleted so far; last: the call just made and its outcome;
\* running: the command loop of main has not left its while loop.
VARIABLES tasks, next_id, now, adds, deleted, last, running

vars == <<tasks, next_id, now, adds, deleted, last, running>>

(* ------------------------------ bounds -------------------------------- *)
\* Successful adds explored by Spec, and by SpecText; last clock reading.
MaxAdds == 2
MaxTextAdds == 1
MaxTime == 1
\* Successful adds explored by SpecOrder, and by SpecCli.
MaxOrderAdds == 3
MaxCliAdds == 1

(* ------------------------- program constants -------------------------- *)
MaxTitleLen == 100
MaxDescLen == 500

(* ------------------------------ strings ------------------------------- *)
Run(c, n) == IF n = 0 THEN << >> ELSE << <<c, n>> >>

IsSpace(c) == c = " "

RECURSIVE len(_)
len(s) == IF s = << >> THEN 0 ELSE Head(s)[2] + len(Tail(s))

RECURSIVE lstrip(_)
lstrip(s) ==
    IF s = << >> THEN << >>
    ELSE IF IsSpace(Head(s)[1]) THEN lstrip(Tail(s)) ELSE s

RECURSIVE rstrip(_)
rstrip(s) ==
    IF s = << >> THEN << >>
    ELSE IF IsSpace(s[Len(s)][1]) THEN rstrip(SubSeq(s, 1, Len(s) - 1)) ELSE s

strip(s) == rstrip(lstrip(s))

None == [none |-> TRUE, str |-> << >>]
Some(s) == [none |-> FALSE, str |-> s]

\* Python truthiness of an Optional[str]: neither None nor "".
Truthy(o) == ~o.none /\ o.str # << >>

(* ------------------------------- Task --------------------------------- *)
INCOMPLETE == "incomplete"
COMPLETE == "complete"


\* Task constructed with the status COMPLETE.
Task_started_complete(task_id, title, description, t) ==
    [id |-> task_id,
     title |-> title,
     description |-> IF Truthy(description) THEN description.str ELSE << >>,
     status |-> COMPLETE,
     created_at |-> t]

\* Task(task_id, title, description) constructed at clock reading t.
Task(task_id, title, description, t) ==
    [id |-> task_id,
     title |-> title,
     description |-> IF Truthy(description) THEN description.str ELSE << >>,
     status |-> INCOMPLETE,
     created_at |-> t]


\* mark_complete flipping the status instead of setting it.
mark_complete_toggle(task) ==
    [task EXCEPT !.status = IF task.status = COMPLETE THEN INCOMPLETE
                            ELSE COMPLETE]

\* mark_complete stamping the clock reading into created_at.
mark_complete_restamp(task) ==
    [task EXCEPT !.status = COMPLETE, !.created_at = now]

mark_complete(task) == [task EXCEPT !.status = COMPLETE]


\* mark_incomplete comparing the status instead of assigning it.
mark_incomplete_noop(task) == task

mark_incomplete(task) == [task EXCEPT !.status = INCOMPLETE]

(* ------------------------ dict (insertion order) ----------------------- *)
Has(d, k) == \E i \in 1..Len(d) : d[i].key = k

Idx(d, k) == CHOOSE i \in 1..Len(d) : d[i].key = k

DictGet(d, k) == d[Idx(d, k)].task


\* DictSet replacing an entry by removing it and inserting it anew.
DictSet_reinsert(d, k, v) ==
    Append(SelectSeq(d, LAMBDA e : e.key # k), [key |-> k, task |-> v])

DictSet(d, k, v) ==
    IF Has(d, k) THEN [d EXCEPT ![Idx(d, k)].task = v]
    ELSE Append(d, [key |-> k, task |-> v])


\* DictDel filling the place of the removed entry with the last entry.
DictDel_swap(d, k) ==
    IF ~Has(d, k) THEN d
    ELSE [j \in 1..(Len(d) - 1) |-> IF j = Idx(d, k) THEN d[Len(d)] ELSE d[j]]

DictDel(d, k) == SelectSeq(d, LAMBDA e : e.key # k)

Values(d) == [i \in 1..Len(d) |-> d[i].task]

(* ----------------------- outcomes of a store call ---------------------- *)
\* A call returns normally (exc = "None") with a sequence of returned tasks
\* (empty for void, one task, or the list), or raises ValueError / TaskNotFound.
Return(self, ret) == [self |-> self, exc |-> "None", msg |-> "", ret |-> ret]

Raise(self, exc, msg) == [self |-> self, exc |-> exc, msg |-> msg, ret |-> << >>]

OK == ""

(* ------------------------------ TodoStore ------------------------------ *)
\* _validate_title with the limit compared by >= instead of >.
_validate_title_ge(title) ==
    LET t == IF Truthy(title) THEN strip(title.str) ELSE << >>
    IN IF t = << >> THEN "Title cannot be empty"
       ELSE IF len(t) >= MaxTitleLen THEN "Title exceeds 100 characters"
       ELSE OK

\* The message of the ValueError _validate_title raises, OK if it returns.
_validate_title(title) ==
    LET t == IF Truthy(title) THEN strip(title.str) ELSE << >>
    IN IF t = << >> THEN "Title cannot be empty"
       ELSE IF len(t) > MaxTitleLen THEN "Title exceeds 100 characters"
       ELSE OK

\* _validate_description with the limit off by one.
_validate_description_lax(description) ==
    IF len(description.str) > MaxDescLen + 1
    THEN "Description exceeds 500 characters"
    ELSE OK

\* The message of the ValueError _validate_description raises, OK if it returns.
_validate_description(description) ==
    IF len(description.str) > MaxDescLen THEN "Description exceeds 500 characters"
    ELSE OK

\* add_task numbering the new task by the size of the dict.
add_task_by_size(self, title, description, t) ==
    IF _validate_title(title) # OK
    THEN Raise(self, "ValueError", _validate_title(title))
    ELSE IF Truthy(description) /\ _validate_description(description) # OK
    THEN Raise(self, "ValueError", _validate_description(description))
    ELSE LET id == Len(self.tasks) + 1
             task == Task(id, strip(title.str),
                          IF Truthy(description) THEN Some(strip(description.str))
                          ELSE None, t)
             s1 == [self EXCEPT !.tasks = DictSet(self.tasks, id, task)]
             s2 == [s1 EXCEPT !.next_id = s1.next_id + 1]
         IN Return(s2, <<task>>)

\* add_task taking the id before it validates.
add_task_id_first(self, title, description, t) ==
    LET s0 == [self EXCEPT !.next_id = self.next_id + 1]
    IN IF _validate_title(title) # OK
       THEN Raise(s0, "ValueError", _validate_title(title))
       ELSE IF Truthy(description) /\ _validate_description(description) # OK
       THEN Raise(s0, "ValueError", _validate_description(description))
       ELSE LET task == Task(self.next_id, strip(title.str),
                             IF Truthy(description)
                             THEN Some(strip(description.str)) ELSE None, t)
            IN Return([s0 EXCEPT !.tasks = DictSet(self.tasks, self.next_id, task)],
                      <<task>>)


\* add_task without the increment of next_id.
add_task_no_increment(self, title, description, t) ==
    IF _validate_title(title) # OK
    THEN Raise(self, "ValueError", _validate_title(title))
    ELSE IF Truthy(description) /\ _validate_description(description) # OK
    THEN Raise(self, "ValueError", _validate_description(description))
    ELSE LET task == Task(self.next_id, strip(title.str),
                          IF Truthy(description) THEN Some(strip(description.str))
                          ELSE None, t)
         IN Return([self EXCEPT !.tasks = DictSet(self.tasks, self.next_id, task)],
                   <<task>>)

add_task(self, title, description, t) ==
    IF _validate_title(title) # OK
    THEN Raise(self, "ValueError", _validate_title(title))
    ELSE IF Truthy(description) /\ _validate_description(description) # OK
    THEN Raise(self, "ValueError", _validate_description(description))
    ELSE LET task == Task(self.next_id, strip(title.str),
                          IF Truthy(description) THEN Some(strip(description.str))
                          ELSE None, t)
             s1 == [self EXCEPT !.tasks = DictSet(self.tasks, self.next_id, task)]
             s2 == [s1 EXCEPT !.next_id = s1.next_id + 1]
         IN Return(s2, <<task>>)

get_task(self, task_id) ==
    IF ~Has(self.tasks, task_id)
    THEN Raise(self, "TaskNotFound", "Task ID {task_id} not found")
    ELSE Return(self, <<DictGet(self.tasks, task_id)>>)

list_tasks(self) == Return(self, Values(self.tasks))

\* update_task looking the task up before it checks that a field is given.
update_task_lookup_first(self, task_id, title, description) ==
    IF get_task(self, task_id).exc # "None"
    THEN get_task(self, task_id)
    ELSE IF title.none /\ description.none
    THEN Raise(self, "ValueError", "Provide new title or --desc <description>")
    ELSE LET task == get_task(self, task_id).ret[1]
             titleErr == IF Truthy(title) THEN _validate_title(title) ELSE OK
             task1 == IF Truthy(title) /\ titleErr = OK
                      THEN [task EXCEPT !.title = strip(title.str)]
                      ELSE task
             s1 == [self EXCEPT !.tasks = DictSet(self.tasks, task_id, task1)]
             descErr == IF ~description.none
                        THEN _validate_description(description) ELSE OK
             task2 == IF ~description.none /\ descErr = OK
                      THEN [task1 EXCEPT !.description = strip(description.str)]
                      ELSE task1
             s2 == [s1 EXCEPT !.tasks = DictSet(s1.tasks, task_id, task2)]
         IN IF titleErr # OK THEN Raise(self, "ValueError", titleErr)
            ELSE IF descErr # OK THEN Raise(s1, "ValueError", descErr)
            ELSE Return(s2, <<task2>>)

\* update_task assigning the description also when none is given.
update_task_clear_desc(self, task_id, title, description) ==
    IF title.none /\ description.none
    THEN Raise(self, "ValueError", "Provide new title or --desc <description>")
    ELSE IF get_task(self, task_id).exc # "None"
    THEN get_task(self, task_id)
    ELSE LET task == get_task(self, task_id).ret[1]
             titleErr == IF Truthy(title) THEN _validate_title(title) ELSE OK
             task1 == IF Truthy(title) /\ titleErr = OK
                      THEN [task EXCEPT !.title = strip(title.str)]
                      ELSE task
             s1 == [self EXCEPT !.tasks = DictSet(self.tasks, task_id, task1)]
             descErr == IF ~description.none
                        THEN _validate_description(description) ELSE OK
             task2 == IF descErr = OK
                      THEN [task1 EXCEPT !.description = strip(description.str)]
                      ELSE task1
             s2 == [s1 EXCEPT !.tasks = DictSet(s1.tasks, task_id, task2)]
         IN IF titleErr # OK THEN Raise(self, "ValueError", titleErr)
            ELSE IF descErr # OK THEN Raise(s1, "ValueError", descErr)
            ELSE Return(s2, <<task2>>)


\* update_task testing the description by `if description:`.
update_task_desc_truthy(self, task_id, title, description) ==
    IF title.none /\ description.none
    THEN Raise(self, "ValueError", "Provide new title or --desc <description>")
    ELSE IF get_task(self, task_id).exc # "None"
    THEN get_task(self, task_id)
    ELSE LET task == get_task(self, task_id).ret[1]
             titleErr == IF Truthy(title) THEN _validate_title(title) ELSE OK
             task1 == IF Truthy(title) /\ titleErr = OK
                      THEN [task EXCEPT !.title = strip(title.str)]
                      ELSE task
             s1 == [self EXCEPT !.tasks = DictSet(self.tasks, task_id, task1)]
             descErr == IF Truthy(description)
                        THEN _validate_description(description) ELSE OK
             task2 == IF Truthy(description) /\ descErr = OK
                      THEN [task1 EXCEPT !.description = strip(description.str)]
                      ELSE task1
             s2 == [s1 EXCEPT !.tasks = DictSet(s1.tasks, task_id, task2)]
         IN IF titleErr # OK THEN Raise(self, "ValueError", titleErr)
            ELSE IF descErr # OK THEN Raise(s1, "ValueError", descErr)
            ELSE Return(s2, <<task2>>)

update_task(self, task_id, title, description) ==
    IF title.none /\ description.none
    THEN Raise(self, "ValueError", "Provide new title or --desc <description>")
    ELSE IF get_task(self, task_id).exc # "None"
    THEN get_task(self, task_id)
    ELSE LET task == get_task(self, task_id).ret[1]
             \* if title: validate, then assign (the task object is mutated
             \* in place, so the store holds the new title from here on)
             titleErr == IF Truthy(title) THEN _validate_title(title) ELSE OK
             task1 == IF Truthy(title) /\ titleErr = OK
                      THEN [task EXCEPT !.title = strip(title.str)]
                      ELSE task
             s1 == [self EXCEPT !.tasks = DictSet(self.tasks, task_id, task1)]
             descErr == IF ~description.none
                        THEN _validate_description(description) ELSE OK
             task2 == IF ~description.none /\ descErr = OK
                      THEN [task1 EXCEPT !.description = strip(description.str)]
                      ELSE task1
             s2 == [s1 EXCEPT !.tasks = DictSet(s1.tasks, task_id, task2)]
         IN IF titleErr # OK THEN Raise(self, "ValueError", titleErr)
            ELSE IF descErr # OK THEN Raise(s1, "ValueError", descErr)
            ELSE Return(s2, <<task2>>)

\* delete_task giving the id back when the newest task is deleted.
delete_task_rewind(self, task_id) ==
    IF ~Has(self.tasks, task_id)
    THEN Raise(self, "TaskNotFound", "Task ID {task_id} not found")
    ELSE Return([tasks |-> DictDel(self.tasks, task_id),
                 next_id |-> IF task_id = self.next_id - 1
                             THEN self.next_id - 1 ELSE self.next_id], << >>)


\* delete_task ignoring an id that is not in the dict.
delete_task_silent(self, task_id) ==
    Return([self EXCEPT !.tasks = DictDel(self.tasks, task_id)], << >>)

delete_task(self, task_id) ==
    IF ~Has(self.tasks, task_id)
    THEN Raise(self, "TaskNotFound", "Task ID {task_id} not found")
    ELSE Return([self EXCEPT !.tasks = DictDel(self.tasks, task_id)], << >>)

complete_task(self, task_id) ==
    IF get_task(self, task_id).exc # "None"
    THEN get_task(self, task_id)
    ELSE LET task == mark_complete(get_task(self, task_id).ret[1])
         IN Return([self EXCEPT !.tasks = DictSet(self.tasks, task_id, task)],
                   <<task>>)

incomplete_task(self, task_id) ==
    IF get_task(self, task_id).exc # "None"
    THEN get_task(self, task_id)
    ELSE LET task == mark_incomplete(get_task(self, task_id).ret[1])
         IN Return([self EXCEPT !.tasks = DictSet(self.tasks, task_id, task)],
                   <<task>>)


(* --------------------------- command handlers --------------------------- *)
\* The characters of a string, one by one.
RECURSIVE Chars(_)
Chars(s) ==
    IF s = << >> THEN << >>
    ELSE [i \in 1..Head(s)[2] |-> Head(s)[1]] \o Chars(Tail(s))

Digits == {"0", "1", "2", "3", "4", "5", "6", "7", "8", "9"}

DigitVal(c) ==
    CASE c = "0" -> 0 [] c = "1" -> 1 [] c = "2" -> 2 [] c = "3" -> 3
      [] c = "4" -> 4 [] c = "5" -> 5 [] c = "6" -> 6 [] c = "7" -> 7
      [] c = "8" -> 8 [] c = "9" -> 9

RECURSIVE DigitsValue(_)
DigitsValue(cs) ==
    IF cs = << >> THEN 0
    ELSE 10 * DigitsValue(SubSeq(cs, 1, Len(cs) - 1)) + DigitVal(cs[Len(cs)])

\* int(value) of a str: blanks around it are dropped, then an optional sign
\* and one or more decimal digits are read; ok is FALSE where int raises
\* ValueError.  (Underscores between digits, which int also accepts, are not
\* among the tokens read here.)
int(value) ==
    LET cs == Chars(strip(value))
        signed == cs # << >> /\ cs[1] \in {"+", "-"}
        ds == IF signed THEN Tail(cs) ELSE cs
    IN IF ds # << >> /\ \A i \in 1..Len(ds) : ds[i] \in Digits
       THEN [ok |-> TRUE,
             val |-> IF signed /\ cs[1] = "-" THEN 0 - DigitsValue(ds)
                     ELSE DigitsValue(ds)]
       ELSE [ok |-> FALSE, val |-> 0]

\* parse_task_id without the test task_id <= 0.
parse_task_id_any(value) ==
    IF ~int(value).ok
    THEN [exc |-> "ValueError", msg |-> "Task ID must be numeric", val |-> 0]
    ELSE [exc |-> "None", msg |-> "", val |-> int(value).val]

\* parse_task_id: the ValueError "Task ID must be positive" is raised inside
\* the try block and caught by its except clause, which raises the
\* ValueError "Task ID must be numeric" in its place.
parse_task_id(value) ==
    IF ~int(value).ok
    THEN [exc |-> "ValueError", msg |-> "Task ID must be numeric", val |-> 0]
    ELSE IF int(value).val <= 0
    THEN [exc |-> "ValueError", msg |-> "Task ID must be numeric", val |-> 0]
    ELSE [exc |-> "None", msg |-> "", val |-> int(value).val]

\* The token --desc.
DescFlag ==
    Run("-", 2) \o Run("d", 1) \o Run("e", 1) \o Run("s", 1) \o Run("c", 1)

\* What a handler leaves: the store, the exception it caught ("None" if
\* none), the line it printed, and the store methods it called.
Handled(self, exc, msg, calls) ==
    [self |-> self, exc |-> exc, msg |-> msg, calls |-> calls]

\* A handler after its call r of the store method named method.
AfterCall(r, method, printed) ==
    Handled(r.self, r.exc, IF r.exc = "None" THEN printed ELSE r.msg, <<method>>)

handle_add(args, store, t) ==
    IF Len(args) < 1
    THEN Handled(store, "None",
                 "Title is required. Usage: add <title> [description]", << >>)
    ELSE AfterCall(add_task(store, Some(args[1]),
                            IF Len(args) > 1 THEN Some(args[2]) ELSE None, t),
                   "add_task", "Task added with ID: {task.id}")

handle_list(args, store) ==
    Handled(list_tasks(store).self, "None",
            IF list_tasks(store).ret = << >>
            THEN "No tasks yet. Add one with: add <title> [description]"
            ELSE "ID | Status | Title",
            <<"list_tasks">>)

handle_update(args, store) ==
    IF Len(args) < 1
    THEN Handled(store, "None",
                 "Task ID is required. Usage: update <id> [title] [--desc description]",
                 << >>)
    ELSE IF parse_task_id(args[1]).exc # "None"
    THEN Handled(store, "ValueError", parse_task_id(args[1]).msg, << >>)
    ELSE LET title == IF Len(args) > 1 /\ args[2] # DescFlag
                      THEN Some(args[2]) ELSE None
             description ==
                 IF Len(args) > 1 /\ args[2] = DescFlag
                 THEN (IF Len(args) > 2 THEN Some(args[3]) ELSE None)
                 ELSE IF Len(args) > 3 /\ args[3] = DescFlag
                 THEN Some(args[4]) ELSE None
         IN AfterCall(update_task(store, parse_task_id(args[1]).val,
                                  title, description),
                      "update_task", "Task {task.id} updated")

handle_delete(args, store) ==
    IF Len(args) < 1
    THEN Handled(store, "None", "Task ID is required. Usage: delete <id>", << >>)
    ELSE IF parse_task_id(args[1]).exc # "None"
    THEN Handled(store, "ValueError", parse_task_id(args[1]).msg, << >>)
    ELSE AfterCall(delete_task(store, parse_task_id(args[1]).val),
                   "delete_task", "Task {task_id} deleted")

handle_complete(args, store) ==
    IF Len(args) < 1
    THEN Handled(store, "None", "Task ID is required. Usage: complete <id>", << >>)
    ELSE IF parse_task_id(args[1]).exc # "None"
    THEN Handled(store, "ValueError", parse_task_id(args[1]).msg, << >>)
    ELSE AfterCall(complete_task(store, parse_task_id(args[1]).val),
                   "complete_task", "Task {task.id} marked complete")

handle_incomplete(args, store) ==
    IF Len(args) < 1
    THEN Handled(store, "None", "Task ID is required. Usage: incomplete <id>",
                 << >>)
    ELSE IF parse_task_id(args[1]).exc # "None"
    THEN Handled(store, "ValueError", parse_task_id(args[1]).msg, << >>)
    ELSE AfterCall(incomplete_task(store, parse_task_id(args[1]).val),
                   "incomplete_task", "Task {task.id} marked incomplete")

\* handle_exit returning True.
handle_exit_stay(args, store) == TRUE

\* handle_exit prints "Goodbye!" and returns False.
handle_exit(args, store) == FALSE

(* ------------------------------- inputs -------------------------------- *)
\* Titles a caller passes in Spec: " ", "a", " b ".
Titles ==
    { Run(" ", 1), Run("a", 1),
      Run(" ", 1) \o Run("b", 1) \o Run(" ", 1) }

\* Descriptions a caller passes in Spec: " e ", 501 d's.
Descriptions ==
    { Run(" ", 1) \o Run("e", 1) \o Run(" ", 1),
      Run("d", MaxDescLen + 1) }

\* Titles a caller passes in SpecText: "", " ", " b ", 100 a's between
\* blanks, 101 a's.
TextTitles ==
    { << >>, Run(" ", 1),
      Run(" ", 1) \o Run("b", 1) \o Run(" ", 1),
      Run(" ", 1) \o Run("a", MaxTitleLen) \o Run(" ", 1),
      Run("a", MaxTitleLen + 1) }

\* Descriptions a caller passes in SpecText: "", " e ", 500 d's, a blank and
\* 500 d's, 501 d's.
TextDescriptions ==
    { << >>,
      Run(" ", 1) \o Run("e", 1) \o Run(" ", 1),
      Run("d", MaxDescLen),
      Run(" ", 1) \o Run("d", MaxDescLen),
      Run("d", MaxDescLen + 1) }


\* Titles a caller passes in SpecOrder: "a", " b "; it passes no description.
OrderTitles ==
    { Run("a", 1), Run(" ", 1) \o Run("b", 1) \o Run(" ", 1) }

OrderDescriptions == { }

Opt(S) == {None} \cup {Some(s) : s \in S}

\* Ids a caller passes: every id that can have been issued, and one more.
Ids == 1..(MaxAdds + 1)

TextIds == 1..(MaxTextAdds + 1)


OrderIds == 1..(MaxOrderAdds + 1)

(* ------------------------------ the store ------------------------------ *)
Self == [tasks |-> tasks, next_id |-> next_id]

\* The record of the call just made: its arguments and its outcome.
Call(op, id, title, description, r) ==
    [op |-> op, id |-> id, title |-> title, description |-> description,
     exc |-> r.exc, msg |-> r.msg, ret |-> r.ret]

Init ==
    /\ tasks = << >>
    /\ next_id = 1
    /\ now = 0
    /\ adds = 0
    /\ deleted = {}
    /\ last = Call("init", 0, None, None, Return(Self, << >>))
    /\ running = TRUE

\* store.add_task(title, description), the clock reading t; at most cap
\* successful adds are explored.
AddCall(T, D, cap) ==
    \E title \in T, description \in Opt(D), t \in now..MaxTime :
        \E r \in {add_task(Self, Some(title), description, t)} :
           /\ r.exc = "None" => next_id <= cap
           /\ tasks' = r.self.tasks
           /\ next_id' = r.self.next_id
           /\ now' = IF r.exc = "None" THEN t ELSE now
           /\ adds' = IF r.exc = "None" THEN adds + 1 ELSE adds
           /\ last' = Call("add", 0, Some(title), description, r)
           /\ UNCHANGED <<deleted, running>>

GetCall(I) ==
    \E id \in I :
        \E r \in {get_task(Self, id)} :
           /\ tasks' = r.self.tasks
           /\ next_id' = r.self.next_id
           /\ last' = Call("get", id, None, None, r)
           /\ UNCHANGED <<now, adds, deleted, running>>

ListCall ==
    \E r \in {list_tasks(Self)} :
       /\ tasks' = r.self.tasks
       /\ next_id' = r.self.next_id
       /\ last' = Call("list", 0, None, None, r)
       /\ UNCHANGED <<now, adds, deleted, running>>

UpdateCall(I, T, D) ==
    \E id \in I, title \in Opt(T), description \in Opt(D) :
        \E r \in {update_task(Self, id, title, description)} :
           /\ tasks' = r.self.tasks
           /\ next_id' = r.self.next_id
           /\ last' = Call("update", id, title, description, r)
           /\ UNCHANGED <<now, adds, deleted, running>>

DeleteCall(I) ==
    \E id \in I :
        \E r \in {delete_task(Self, id)} :
           /\ tasks' = r.self.tasks
           /\ next_id' = r.self.next_id
           /\ deleted' = IF r.exc = "None" THEN deleted \cup {id} ELSE deleted
           /\ last' = Call("delete", id, None, None, r)
           /\ UNCHANGED <<now, adds, running>>

CompleteCall(I) ==
    \E id \in I :
        \E r \in {complete_task(Self, id)} :
           /\ tasks' = r.self.tasks
           /\ next_id' = r.self.next_id
           /\ last' = Call("complete", id, None, None, r)
           /\ UNCHANGED <<now, adds, deleted, running>>

IncompleteCall(I) ==
    \E id \in I :
        \E r \in {incomplete_task(Self, id)} :
           /\ tasks' = r.self.tasks
           /\ next_id' = r.self.next_id
           /\ last' = Call("incomplete", id, None, None, r)
           /\ UNCHANGED <<now, adds, deleted, running>>

(* Spec: the life cycle of ids and tasks, a few short strings. *)
Add == AddCall(Titles, Descriptions, MaxAdds)

Get == GetCall(Ids)

List == ListCall

Update == UpdateCall(Ids, Titles, Descriptions)

Delete == DeleteCall(Ids)

Complete == CompleteCall(Ids)

Incomplete == IncompleteCall(Ids)

Next == Add \/ Get \/ List \/ Update \/ Delete \/ Complete \/ Incomplete

Spec == Init /\ [][Next]_vars

(* SpecText: validation of titles and descriptions at their length limits. *)
TextAdd == AddCall(TextTitles, TextDescriptions, MaxTextAdds)

TextGet == GetCall(TextIds)

TextUpdate == UpdateCall(TextIds, TextTitles, TextDescriptions)

TextDelete == DeleteCall(TextIds)

NextText == TextAdd \/ TextGet \/ TextUpdate \/ TextDelete

SpecText == Init /\ [][NextText]_vars


(* SpecOrder: the order of the tasks over three adds, titles only. *)
OrderAdd == AddCall(OrderTitles, OrderDescriptions, MaxOrderAdds)

OrderList == ListCall

OrderUpdate == UpdateCall(OrderIds, OrderTitles, OrderDescriptions)

OrderDelete == DeleteCall(OrderIds)

OrderComplete == CompleteCall(OrderIds)

NextOrder == OrderAdd \/ OrderList \/ OrderUpdate \/ OrderDelete \/ OrderComplete

SpecOrder == Init /\ [][NextOrder]_vars


(* SpecCli: the command loop of main, its handlers and the store. *)
\* The id tokens typed: "1", "+2", "3", "0", "-1", "x", "".
IdTokens ==
    { Run("1", 1), Run("+", 1) \o Run("2", 1), Run("3", 1), Run("0", 1),
      Run("-", 1) \o Run("1", 1), Run("x", 1), << >> }

\* The arguments typed after add: none, "a", " ", "a" " e ".
AddArgs ==
    { << >>, <<Run("a", 1)>>, <<Run(" ", 1)>>,
      <<Run("a", 1), Run(" ", 1) \o Run("e", 1) \o Run(" ", 1)>> }

\* The arguments typed after update: none, or an id followed by nothing,
\* "b", --desc, --desc "e", or "b" --desc "e".
UpdateArgs ==
    { << >> } \cup
    UNION { { <<id>>, <<id, Run("b", 1)>>, <<id, DescFlag>>,
              <<id, DescFlag, Run("e", 1)>>,
              <<id, Run("b", 1), DescFlag, Run("e", 1)>> } : id \in IdTokens }

\* The arguments typed after delete, complete, incomplete: none, or an id.
IdArgs == { << >> } \cup { <<id>> : id \in IdTokens }

\* The record of the command just handled: its arguments and its outcome.
CliCall(cmd, args, r) ==
    [op |-> cmd, args |-> args, exc |-> r.exc, msg |-> r.msg, calls |-> r.calls]

\* The handler called a store method and it returned normally.
Succeeded(r) == r.exc = "None" /\ r.calls # << >>

InitCli ==
    /\ tasks = << >>
    /\ next_id = 1
    /\ now = 0
    /\ adds = 0
    /\ deleted = {}
    /\ last = CliCall("init", << >>, Handled(Self, "None", "", << >>))
    /\ running = TRUE

CmdAdd ==
    /\ running
    /\ \E args \in AddArgs, t \in now..MaxTime :
        \E r \in {handle_add(args, Self, t)} :
           /\ Succeeded(r) => next_id <= MaxCliAdds
           /\ tasks' = r.self.tasks
           /\ next_id' = r.self.next_id
           /\ now' = IF Succeeded(r) THEN t ELSE now
           /\ adds' = IF Succeeded(r) THEN adds + 1 ELSE adds
           /\ last' = CliCall("add", args, r)
           /\ UNCHANGED <<deleted, running>>

CmdList ==
    /\ running
    /\ \E r \in {handle_list(<< >>, Self)} :
           /\ tasks' = r.self.tasks
           /\ next_id' = r.self.next_id
           /\ last' = CliCall("list", << >>, r)
           /\ UNCHANGED <<now, adds, deleted, running>>

CmdUpdate ==
    /\ running
    /\ \E args \in UpdateArgs :
        \E r \in {handle_update(args, Self)} :
           /\ tasks' = r.self.tasks
           /\ next_id' = r.self.next_id
           /\ last' = CliCall("update", args, r)
           /\ UNCHANGED <<now, adds, deleted, running>>

CmdDelete ==
    /\ running
    /\ \E args \in IdArgs :
        \E r \in {handle_delete(args, Self)} :
           /\ tasks' = r.self.tasks
           /\ next_id' = r.self.next_id
           /\ deleted' = IF Succeeded(r)
                         THEN deleted \cup {parse_task_id(args[1]).val}
                         ELSE deleted
           /\ last' = CliCall("delete", args, r)
           /\ UNCHANGED <<now, adds, running>>

CmdComplete ==
    /\ running
    /\ \E args \in IdArgs :
        \E r \in {handle_complete(args, Self)} :
           /\ tasks' = r.self.tasks
           /\ next_id' = r.self.next_id
           /\ last' = CliCall("complete", args, r)
           /\ UNCHANGED <<now, adds, deleted, running>>

CmdIncomplete ==
    /\ running
    /\ \E args \in IdArgs :
        \E r \in {handle_incomplete(args, Self)} :
           /\ tasks' = r.self.tasks
           /\ next_id' = r.self.next_id
           /\ last' = CliCall("incomplete", args, r)
           /\ UNCHANGED <<now, adds, deleted, running>>

\* exit: the loop breaks if handle_exit returns False.
CmdExit ==
    /\ running
    /\ running' = handle_exit(<< >>, Self)
    /\ last' = CliCall("exit", << >>, Handled(Self, "None", "Goodbye!", << >>))
    /\ UNCHANGED <<tasks, next_id, now, adds, deleted>>

\* A command that is none of the seven.
CmdUnknown ==
    /\ running
    /\ last' = CliCall("unknown", << >>,
                       Handled(Self, "None", "Unknown command", << >>))
    /\ UNCHANGED <<tasks, next_id, now, adds, deleted, running>>

\* An empty line (continue), or a line parse_command cannot split.
CmdUnparsable ==
    /\ running
    /\ \E printed \in {"", "Invalid input. Please try again."} :
           last' = CliCall("unparsable", << >>,
                           Handled(Self, "None", printed, << >>))
    /\ UNCHANGED <<tasks, next_id, now, adds, deleted, running>>

\* KeyboardInterrupt while input() waits: the loop breaks.
Interrupt ==
    /\ running
    /\ running' = FALSE
    /\ last' = CliCall("input", << >>,
                       Handled(Self, "KeyboardInterrupt", "Goodbye!", << >>))
    /\ UNCHANGED <<tasks, next_id, now, adds, deleted>>

\* Any other exception of input() (end of input): caught by the loop's
\* except Exception, which prints it and goes on.
InputError ==
    /\ running
    /\ last' = CliCall("input", << >>,
                       Handled(Self, "Exception", "Unexpected error", << >>))
    /\ UNCHANGED <<tasks, next_id, now, adds, deleted, running>>

NextCli ==
    \/ CmdAdd \/ CmdList \/ CmdUpdate \/ CmdDelete \/ CmdComplete
    \/ CmdIncomplete \/ CmdExit \/ CmdUnknown \/ CmdUnparsable
    \/ Interrupt \/ InputError

SpecCli == InitCli /\ [][NextCli]_vars

(* ------------------------------- claims -------------------------------- *)
Failed(c) == c.exc # "None"

StoreUnchanged == tasks' = tasks /\ next_id' = next_id

\* C1: the k-th successful add returns the task with id k, whatever
\* deletions and failed calls came between the adds.
C1_KthAddReturnsIdK ==
    (last.op = "add" /\ ~Failed(last)) => last.ret[1].id = adds

\* The second successful add, made after the first task was deleted.
C1_Witness ==
    /\ last.op = "add" /\ ~Failed(last)
    /\ adds = 2 /\ deleted = {1}
    /\ last.ret[1].id = 2

\* C2: once delete(id) has succeeded, get(id) fails with TaskNotFound in
\* every later state: no later add or other call stores that id again.
C2_DeletedIdNeverPresent ==
    \A id \in deleted : get_task(Self, id).exc = "TaskNotFound"

\* A successful add made after id 1 was deleted.
C2_Witness ==
    /\ last.op = "add" /\ ~Failed(last)
    /\ 1 \in deleted
    /\ tasks # << >>

\* C3: an update that fails leaves tasks and next_id as they were.
C3_FailedUpdateLeavesStore ==
    [][(last'.op = "update" /\ Failed(last')) => StoreUnchanged]_vars

\* C4: a failed add, get, delete, complete or incomplete leaves tasks and
\* next_id as they were.
C4_FailedCallLeavesStore ==
    [][(last'.op \in {"add", "get", "delete", "complete", "incomplete"}
        /\ Failed(last')) => StoreUnchanged]_vars

\* An add that failed on its description, with a task in the store.
C4_Witness ==
    /\ last.op = "add"
    /\ last.msg = "Description exceeds 500 characters"
    /\ tasks # << >>
    /\ next_id = 2

\* C5: for an existing id and a provided title (no description), update
\* fails with ValueError exactly when add of that title fails with ValueError.
C5_UpdateValidatesTitleAsAdd ==
    (/\ last.op = "update"
     /\ Has(tasks, last.id)
     /\ ~last.title.none
     /\ last.description.none)
    => ((last.exc = "ValueError")
        <=> (add_task(Self, last.title, None, now).exc = "ValueError"))

\* C6: add fails with "Title cannot be empty" when the trimmed title is
\* empty, with "Title exceeds 100 characters" when it is longer than 100, and
\* in no other case; it succeeds when the trimmed title has 1..100
\* characters and the description is absent or has at most 500 characters.
C6_AddTitleValidation ==
    last.op = "add" =>
        LET n == len(strip(last.title.str))
        IN /\ n = 0 => (last.exc = "ValueError"
                        /\ last.msg = "Title cannot be empty")
           /\ n > 100 => (last.exc = "ValueError"
                          /\ last.msg = "Title exceeds 100 characters")
           /\ (n >= 1 /\ n <= 100) =>
                  last.msg \notin {"Title cannot be empty",
                                   "Title exceeds 100 characters"}
           /\ (n >= 1 /\ n <= 100
               /\ (last.description.none \/ len(last.description.str) <= 500))
              => ~Failed(last)

\* An add that succeeded with a title of 100 characters between blanks.
C6_Witness ==
    /\ last.op = "add" /\ ~Failed(last)
    /\ len(last.title.str) > 100
    /\ len(last.ret[1].title) = 100

\* C7: add and update do not reject a provided description whose length
\* after trimming is at most 500.
C7_DescriptionLimitAfterTrim ==
    (/\ last.op \in {"add", "update"}
     /\ ~last.description.none
     /\ len(strip(last.description.str)) <= 500)
    => last.msg # "Description exceeds 500 characters"

\* C8: update with neither title nor description fails with ValueError for
\* every id, present or not, and leaves tasks and next_id as they were.
C8_UpdateWithoutFields ==
    [][(last'.op = "update" /\ last'.title.none /\ last'.description.none)
       => (/\ last'.exc = "ValueError"
           /\ last'.msg = "Provide new title or --desc <description>"
           /\ StoreUnchanged)]_vars

\* An update without fields of an id that is not in the store.
C8_Witness ==
    /\ last.op = "update" /\ last.title.none /\ last.description.none
    /\ ~Has(tasks, last.id)
    /\ tasks # << >>
    /\ last.exc = "ValueError"

\* C9: a successful update changes nothing but the provided fields of the
\* task it names: a field not provided, the id, status and created_at of
\* that task, every other task, the order of the tasks and next_id stay.
C9_UpdateFrame ==
    [][(last'.op = "update" /\ ~Failed(last')) =>
        /\ next_id' = next_id
        /\ Len(tasks') = Len(tasks)
        /\ \A i \in 1..Len(tasks) :
            /\ tasks'[i].key = tasks[i].key
            /\ tasks[i].key # last'.id => tasks'[i] = tasks[i]
            /\ tasks'[i].task.id = tasks[i].task.id
            /\ tasks'[i].task.status = tasks[i].task.status
            /\ tasks'[i].task.created_at = tasks[i].task.created_at
            /\ last'.title.none => tasks'[i].task.title = tasks[i].task.title
            /\ last'.description.none =>
                   tasks'[i].task.description = tasks[i].task.description]_vars

\* A title-only update of a completed task that has a description, with
\* another task in the store.
C9_Witness ==
    /\ last.op = "update" /\ ~Failed(last)
    /\ ~last.title.none /\ last.description.none
    /\ Len(tasks) = 2
    /\ last.ret[1].title = strip(last.title.str)
    /\ last.ret[1].description # << >>
    /\ last.ret[1].status = COMPLETE

\* C10: every stored task has a trimmed title of 1..100 characters and a
\* trimmed description of 0..500 characters.
C10_StoredTextWithinLimits ==
    \A i \in 1..Len(tasks) :
        LET task == tasks[i].task
        IN /\ strip(task.title) = task.title
           /\ len(task.title) >= 1 /\ len(task.title) <= 100
           /\ strip(task.description) = task.description
           /\ len(task.description) <= 500

\* An update that stored a title of 100 and a description of 500 characters,
\* both passed with blanks around them or at the limit.
C10_Witness ==
    /\ last.op = "update" /\ ~Failed(last)
    /\ ~last.title.none /\ ~last.description.none
    /\ len(last.title.str) > 100
    /\ len(last.ret[1].title) = 100
    /\ len(last.ret[1].description) = 500

\* C11: a successful add appends exactly one entry, under the key next_id
\* had before the call: the task it returns, with that id, the status
\* INCOMPLETE, the trimmed title and the trimmed description ("" when the
\* description is omitted or empty); next_id grows by 1 and the entries
\* stored before stay as they were.
C11_AddStoresNewTask ==
    [][(last'.op = "add" /\ ~Failed(last')) =>
        LET task == last'.ret[1]
        IN /\ Len(last'.ret) = 1
           /\ tasks' = Append(tasks, [key |-> next_id, task |-> task])
           /\ task.id = next_id
           /\ task.status = INCOMPLETE
           /\ task.title = strip(last'.title.str)
           /\ task.description = (IF last'.description.none THEN << >>
                                  ELSE strip(last'.description.str))
           /\ next_id' = next_id + 1]_vars

\* The second add, with a title and a description passed between blanks,
\* made while the first task, already completed, is in the store.
C11_Witness ==
    /\ last.op = "add" /\ ~Failed(last)
    /\ Len(tasks) = 2
    /\ tasks[1].task.status = COMPLETE
    /\ last.title.str # last.ret[1].title
    /\ ~last.description.none
    /\ last.description.str # last.ret[1].description
    /\ last.ret[1].id = 2

\* The entries of the store, the entry of id apart, and next_id are the same
\* in s and t; the task of id differs at most in its status.
OnlyStatusOf(id, s, t) ==
    /\ t.next_id = s.next_id
    /\ Len(t.tasks) = Len(s.tasks)
    /\ \A i \in 1..Len(s.tasks) :
        /\ t.tasks[i].key = s.tasks[i].key
        /\ s.tasks[i].key # id => t.tasks[i] = s.tasks[i]
        /\ t.tasks[i].task.id = s.tasks[i].task.id
        /\ t.tasks[i].task.title = s.tasks[i].task.title
        /\ t.tasks[i].task.description = s.tasks[i].task.description
        /\ t.tasks[i].task.created_at = s.tasks[i].task.created_at

StatusOf(s, id) ==
    {s.tasks[i].task.status : i \in {j \in 1..Len(s.tasks) : s.tasks[j].key = id}}

\* C13: complete of an existing id leaves the task COMPLETE whatever its
\* status was and changes nothing else; a second complete of that id leaves
\* the store exactly as the first left it.  The same for incomplete and
\* INCOMPLETE.
C13_StatusCallsIdempotent ==
    [][/\ (last'.op = "complete" /\ Has(tasks, last'.id)) =>
            /\ ~Failed(last')
            /\ StatusOf(Self', last'.id) = {COMPLETE}
            /\ OnlyStatusOf(last'.id, Self, Self')
            /\ complete_task(Self', last'.id).self = Self'
       /\ (last'.op = "incomplete" /\ Has(tasks, last'.id)) =>
            /\ ~Failed(last')
            /\ StatusOf(Self', last'.id) = {INCOMPLETE}
            /\ OnlyStatusOf(last'.id, Self, Self')
            /\ incomplete_task(Self', last'.id).self = Self']_vars

\* A complete of the first of two tasks, the second one incomplete.
C13_Witness ==
    /\ last.op = "complete" /\ ~Failed(last)
    /\ last.id = 1
    /\ Len(tasks) = 2
    /\ tasks[1].task.status = COMPLETE
    /\ tasks[1].task.description # << >>
    /\ tasks[2].task.status = INCOMPLETE

\* C14: for an existing id, complete followed by incomplete of that id
\* leaves the task INCOMPLETE, with the id, title, description and created_at
\* it had before the two calls, and leaves every other task and next_id as
\* they were.
C14_CompleteThenIncomplete ==
    [][(last'.op = "complete" /\ Has(tasks, last'.id)) =>
        \E r \in {incomplete_task(Self', last'.id)} :
            /\ ~Failed(last') /\ ~Failed(r)
            /\ StatusOf(r.self, last'.id) = {INCOMPLETE}
            /\ OnlyStatusOf(last'.id, Self, r.self)]_vars

\* The complete of the second of two tasks, one that has a description,
\* after which incomplete of that id can be called.
C14_Witness ==
    /\ last.op = "complete" /\ ~Failed(last)
    /\ last.id = 2
    /\ Len(tasks) = 2
    /\ tasks[2].task.status = COMPLETE
    /\ tasks[2].task.description # << >>
    /\ ~Failed(incomplete_task(Self, 2))

SuccessfulAdd(c) == c.op = "add" /\ ~Failed(c)

\* C15: next_id never decreases; a successful add raises it by exactly 1 and
\* no other call, failed or not, changes it; it is 1 plus the number of
\* successful adds.
C15_NextIdCountsAdds ==
    [][/\ next_id' >= next_id
       /\ SuccessfulAdd(last') => next_id' = next_id + 1
       /\ ~SuccessfulAdd(last') => next_id' = next_id
       /\ next_id' = adds' + 1]_vars

\* Both tasks deleted: the store is empty and next_id is still 3.
C15_Witness ==
    /\ last.op = "delete" /\ ~Failed(last)
    /\ deleted = {1, 2}
    /\ tasks = << >>
    /\ next_id = 3

\* C16: get, delete, complete, incomplete, and update with a field given,
\* raise TaskNotFound when the id is not in the store, whatever the title and
\* description are; get of an id in the store returns the task stored under
\* it and changes nothing.
C16_AbsentIdNotFound ==
    [][/\ (/\ \/ last'.op \in {"get", "delete", "complete", "incomplete"}
              \/ (last'.op = "update"
                  /\ ~(last'.title.none /\ last'.description.none))
           /\ ~Has(tasks, last'.id))
          => last'.exc = "TaskNotFound"
       /\ (last'.op = "get" /\ Has(tasks, last'.id)) =>
            /\ ~Failed(last')
            /\ StoreUnchanged
            /\ Len(last'.ret) = 1
            /\ \E i \in 1..Len(tasks) :
                   tasks[i].key = last'.id /\ tasks[i].task = last'.ret[1]]_vars

\* An update of a deleted id with a blank title and a description of 501
\* characters.
C16_Witness ==
    /\ last.op = "update"
    /\ last.id \in deleted
    /\ ~last.title.none /\ strip(last.title.str) = << >>
    /\ len(last.description.str) > 500
    /\ last.exc = "TaskNotFound"

\* C17: the ids of the stored tasks are pairwise distinct, each task is
\* stored under its own id, and every id is at least 1 and below next_id.
C17_IdsDistinctAndIssued ==
    /\ \A i, j \in 1..Len(tasks) :
           i # j => (tasks[i].task.id # tasks[j].task.id
                     /\ tasks[i].key # tasks[j].key)
    /\ \A i \in 1..Len(tasks) :
           /\ tasks[i].key = tasks[i].task.id
           /\ tasks[i].task.id >= 1
           /\ tasks[i].task.id < next_id

\* Two tasks in the store.
C17_Witness ==
    /\ Len(tasks) = 2
    /\ tasks[1].task.id = 1
    /\ tasks[2].task.id = 2
    /\ next_id = 3

\* C18: the id and created_at of a task stay as they are from one state to
\* the next for as long as the task is in the store.
C18_IdAndCreatedAtFixed ==
    [][\A i \in 1..Len(tasks) : \A j \in 1..Len(tasks') :
          tasks[i].key = tasks'[j].key =>
              /\ tasks'[j].task.id = tasks[i].task.id
              /\ tasks'[j].task.created_at = tasks[i].task.created_at]_vars

\* An update of a completed task, the two tasks of the store created at
\* different clock readings.
C18_Witness ==
    /\ last.op = "update" /\ ~Failed(last)
    /\ Len(tasks) = 2
    /\ tasks[1].task.created_at # tasks[2].task.created_at
    /\ last.ret[1].status = COMPLETE
    /\ last.ret[1].created_at = 0
    /\ now = 1

\* C12: list returns exactly the tasks that are in the store (those added
\* and not deleted, each as it is stored now), in ascending order of id, which
\* is the order of creation; the empty sequence when the store is empty; it
\* changes neither tasks nor next_id.
C12_ListInCreationOrder ==
    [][last'.op = "list" =>
        LET ret == last'.ret
        IN /\ ~Failed(last')
           /\ StoreUnchanged
           /\ Len(ret) = Len(tasks)
           /\ {ret[i].id : i \in 1..Len(ret)} = (1..(next_id - 1)) \ deleted
           /\ \A i \in 1..Len(ret) : \E k \in 1..Len(tasks) :
                  tasks[k].key = ret[i].id /\ tasks[k].task = ret[i]
           /\ \A i, j \in 1..Len(ret) :
                  i < j => (/\ ret[i].id < ret[j].id
                            /\ ret[i].created_at <= ret[j].created_at)
           /\ (tasks = << >> => ret = << >>)]_vars

\* The list after three adds and the deletion of task 1: tasks 2 and 3, in
\* that order, task 2 completed and retitled in between.
C12_Witness ==
    /\ last.op = "list"
    /\ adds = 3 /\ deleted = {1}
    /\ Len(last.ret) = 2
    /\ last.ret[1].id = 2 /\ last.ret[2].id = 3
    /\ last.ret[1].status = COMPLETE
    /\ last.ret[1].title = Run("b", 1)

\* A token that reads as a decimal integer: blanks around it apart, an
\* optional sign and one or more digits.
NumericToken(tok) ==
    LET cs == Chars(strip(tok))
        ds == IF cs # << >> /\ cs[1] \in {"+", "-"} THEN Tail(cs) ELSE cs
    IN ds # << >> /\ \A i \in 1..Len(ds) : ds[i] \in Digits

\* A numeric token that is zero or negative: all its digits are 0, or its
\* sign is -.
NonPositiveToken(tok) ==
    LET cs == Chars(strip(tok))
    IN /\ NumericToken(tok)
       /\ \/ cs[1] = "-"
          \/ \A i \in 1..Len(cs) : cs[i] \in {"+", "0"}

\* C19: update, delete, complete and incomplete given an id that is not
\* numeric or not positive catch a ValueError (never TaskNotFound), call no
\* store method and leave tasks and next_id as they were.
C19_BadIdRejectedBeforeStore ==
    [][(/\ last'.op \in {"update", "delete", "complete", "incomplete"}
        /\ Len(last'.args) >= 1
        /\ (~NumericToken(last'.args[1]) \/ NonPositiveToken(last'.args[1])))
       => (/\ last'.exc = "ValueError"
           /\ last'.calls = << >>
           /\ StoreUnchanged)]_vars

\* update 0 "b" typed while a task is in the store.
C19_Witness ==
    /\ last.op = "update"
    /\ last.args = <<Run("0", 1), Run("b", 1)>>
    /\ last.exc = "ValueError"
    /\ tasks # << >>

\* C20: the loop is left only by exit or a keyboard interrupt, and is left
\* by each of them; every other command, with or without an error, leaves
\* it running on the store as the command left it; once the loop is left no
\* command is executed.
C20_LoopEndsOnlyOnExit ==
    [][/\ running
       /\ running' <=> ~(last'.op = "exit" \/ last'.exc = "KeyboardInterrupt")
       /\ (last'.exc \in {"ValueError", "TaskNotFound"}) => running']_vars

\* exit typed while a task is in the store: the loop has been left.
C20_Witness ==
    /\ ~running
    /\ last.op = "exit"
    /\ tasks # << >>

\* C21: a successful delete removes the entry of its id and no other: the
\* entries before it keep their places, the entries after it move up by one
\* place, each with all its fields as they were, and next_id stays.
C21_DeleteRemovesOneEntry ==
    [][(last'.op = "delete" /\ ~Failed(last')) =>
        /\ next_id' = next_id
        /\ ~Has(tasks', last'.id)
        /\ Len(tasks') = Len(tasks) - 1
        /\ \E p \in 1..Len(tasks) :
            /\ tasks[p].key = last'.id
            /\ \A i \in 1..Len(tasks') :
                   tasks'[i] = IF i < p THEN tasks[i] ELSE tasks[i + 1]]_vars

\* The delete of the first of three tasks: tasks 2 and 3 stay, in that
\* order, task 2 completed and retitled before.
C21_Witness ==
    /\ last.op = "delete" /\ ~Failed(last)
    /\ last.id = 1
    /\ Len(tasks) = 2
    /\ tasks[1].key = 2 /\ tasks[2].key = 3
    /\ tasks[1].task.status = COMPLETE
    /\ tasks[1].task.title = Run("b", 1)

\* C22: update of an existing id with the description given as "" and no
\* title counts as a field given: it succeeds, leaves the task with the
\* description "" and with the title it had, and returns that task.
C22_UpdateEmptyDescription ==
    [][(/\ last'.op = "update"
        /\ Has(tasks, last'.id)
        /\ last'.title.none
        /\ ~last'.description.none /\ last'.description.str = << >>)
       => (/\ ~Failed(last')
           /\ Len(last'.ret) = 1
           /\ \A i \in 1..Len(tasks) : tasks[i].key = last'.id =>
                  /\ tasks'[i].task = last'.ret[1]
                  /\ tasks'[i].task.description = << >>
                  /\ tasks'[i].task.title = tasks[i].task.title)]_vars

\* An update with the description "" and no title, of a task with a title
\* of 100 characters.
C22_Witness ==
    /\ last.op = "update" /\ ~Failed(last)
    /\ last.title.none
    /\ ~last.description.none /\ last.description.str = << >>
    /\ last.ret[1].description = << >>
    /\ len(last.ret[1].title) = 100

\* C23: the number of tasks in the store is the number of successful adds
\* less the number of successful deletes (the ids deleted so far, an id
\* being deleted at most once), and the number of successful adds is
\* next_id - 1.
C23_TaskCount ==
    /\ Len(tasks) = adds - Cardinality(deleted)
    /\ adds = next_id - 1

\* Two adds and the delete of task 1: one task in the store, next_id is 3.
C23_Witness ==
    /\ adds = 2
    /\ deleted = {1}
    /\ Len(tasks) = 1
    /\ next_id = 3

=============================================================================
